---- MODULE Spec2Model ----
(***************************************************************************)
(* Bulk upload of user records (src/src/upload_data.py) through the        *)
(* asynchronous API client (src/src/api_client.py, custom_exceptions.py).  *)
(* One state per suspension point of the event loop: the code between two  *)
(* awaits runs atomically.                                                 *)
(***************************************************************************)
EXTENDS Integers, Sequences, FiniteSets, TLC

\* ------------------------------------------------------------------ bounds
MaxUsers == 2
MaxAddrs == 2
MaxRuns == 2
MaxRawAddrs == 5
BatchSize == 3

\* Python's None
NULL == "null"

\* ------------------------------------------------- custom_exceptions.py
\* The subclasses of ApiClientError: what `except ApiClientError` matches.
ApiClientErrorFamily ==
    {"ApiClientError", "ApiTimeoutError", "ApiConnectionError",
     "ApiHttpError", "ApiResponseValidationError"}

\* ApiClientError.__init__(message, status_code, response_body): accepts the
\* arguments its callers pass, so `raise cls(...)` raises an instance of cls.
\* ApiTimeoutError and ApiConnectionError inherit it unchanged.
ApiClientError_init(cls) == cls

ApiHttpError_init_accepting_request_url == "ApiHttpError"

\* ApiHttpError.__init__ forwards request_url=... to ApiClientError.__init__,
\* which has no such parameter: the constructor call raises TypeError, and
\* that TypeError is what the `raise ApiHttpError(...)` statement raises.
ApiHttpError_init == "TypeError"

ApiResponseValidationError_init_accepting_request_url == "ApiResponseValidationError"

\* ApiResponseValidationError.__init__ forwards request_url=... the same way.
ApiResponseValidationError_init == "TypeError"

ApiClientError_str_without_request_url(e) == NULL

\* str(e), as evaluated by an f-string "{e}".  ApiClientError.__str__ reads
\* self.request_url, which no constructor sets: AttributeError.  Any other
\* exception formats normally (NULL: nothing raised).
ApiClientError_str(e) ==
    IF e \in ApiClientErrorFamily THEN "AttributeError" ELSE NULL

\* ------------------------------------------------------- api_client.py
\* What can happen to one HTTP request.
HttpOutcomes ==
    {"valid",          \* expected status, body validates, identifier > 0
     "zero_id",        \* expected status, body validates, identifier = 0
     "no_content",     \* 204 or empty body
     "timeout",        \* httpx.TimeoutException
     "connect_error",  \* httpx.ConnectError
     "http_error",     \* 4xx/5xx: raise_for_status() raises HTTPStatusError
     "wrong_status",   \* a non-error status other than expected_status
     "not_json",       \* expected status, body is not JSON
     "bad_shape",      \* JSON that fails response_model.model_validate
     "request_error",  \* any other httpx.RequestError
     "fault"}          \* an exception _request has no handler for

\* No response yet.
NoResponse == [exc |-> NULL, value |-> NULL]

Returned(v) == [exc |-> NULL, value |-> v]
Raised(e) == [exc |-> e, value |-> NULL]

\* YeloApiClient._request (reached through post) with a response_model:
\* the value returned to, or the exception raised in, the caller.
_request(o) ==
    CASE o = "valid" -> Returned("valid")
      [] o = "zero_id" -> Returned("zero_id")
      [] o = "no_content" -> Returned("None")
      [] o = "timeout" -> Raised(ApiClientError_init("ApiTimeoutError"))
      [] o = "connect_error" -> Raised(ApiClientError_init("ApiConnectionError"))
      [] o = "http_error" -> Raised(ApiHttpError_init)
      [] o = "wrong_status" -> Raised(ApiHttpError_init)
      [] o = "not_json" -> Raised(ApiClientError_init("ApiClientError"))
      [] o = "bad_shape" -> Raised(ApiResponseValidationError_init)
      [] o = "request_error" -> Raised(ApiClientError_init("ApiClientError"))
      [] OTHER -> Raised("RuntimeError")

\* ------------------------------------------------------------ models.py
Statuses == {NULL, "processing", "success", "partial", "failed"}
Terminal == {"success", "partial", "failed"}

\* CleanAddress as the cleaning step writes it, and one already created.
FreshAddress == [id |-> NULL, upload_status |-> NULL, error_message |-> NULL]
CreatedAddress == [id |-> "preset", upload_status |-> "success", error_message |-> NULL]
InitAddresses == {FreshAddress, CreatedAddress}

\* Variant: the position is used as it is.
loc_type_value_unclamped(index) == index

\* main_clean.py, the address loop: the location type of the address at
\* position index (from 0) of a user's list.
loc_type_value(index) == IF index <= 2 THEN index ELSE 2

\* A list of addresses as the cleaning step numbers them.
Positioned(a) == [k \in DOMAIN a |-> [loc_type |-> loc_type_value(k - 1)] @@ a[k]]

AddressLists == {Positioned(a) : a \in UNION {[1..n -> InitAddresses] : n \in 0..MaxAddrs}}

\* CleanUserData: not yet uploaded (customer_id None), or uploaded earlier.
\* email stands for the two optional contact fields, email and phone_no,
\* which PostUserYelo requires to be strings.  A record without them never
\* gets past the payload, so its addresses play no part: one such record.
InitUsers ==
    {[customer_id |-> NULL, upload_status |-> NULL, error_message |-> NULL,
      email |-> "e", addresses |-> a] : a \in AddressLists}
    \cup
    {[customer_id |-> NULL, upload_status |-> NULL, error_message |-> NULL,
      email |-> NULL, addresses |-> Positioned(<<FreshAddress>>)]}
    \cup
    {[customer_id |-> "preset", upload_status |-> "success", error_message |-> NULL,
      email |-> "e", addresses |-> Positioned([k \in 1..n |-> CreatedAddress])] : n \in 0..1}

\* CleanUserData.password, the document id: what tells one record from another.
DocumentId(i) == "d" \o ToString(i)

\* Identifiers the remote API hands out: one per created entity.
ServerCustomerId(i) == "c" \o ToString(i)
ServerAddressId(i, k) == "a" \o ToString(i) \o "_" \o ToString(k)

\* ------------------------------------------------------- program state
VARIABLES
    users,          \* users_data: the list run_bulk_upload was given, mutated in place
    users0,         \* users_data as it was when run_bulk_upload was last called
    pc,             \* position of run_bulk_upload
    run,            \* number of calls of run_bulk_upload so far
    task,           \* per list index: the asyncio task created for that record
    userResp,       \* per list index: what the create-user client.post returned or raised
    addrResp,       \* per list index: the same for the task's latest create-address post
    userCalls,      \* per list index: create-user requests issued in this run
    addrCalls,      \* per list index and address: create-address requests issued in this run
    tallied,        \* per list index: the final_status the tally counted it under
    success_count,
    partial_count,
    failed_count,
    client,         \* the ApiClient of the run: "none", "open" or "closed"
    saved,          \* the list save_to_json wrote in this run (NULL: none)
    writes,         \* completed writes of the results file in this run
    saveCalls,      \* calls of save_to_json in this run
    summary,        \* the totals logged by the summary of this run (NULL: none)
    addrPayload,    \* per list index and address: the customer_id its request carried
    outcome,        \* the outcome fixed beforehand for each request (NULL: left open)
    addresses_raw,  \* main_clean.py: one grouped user's raw addresses
    clean_addresses \* main_clean.py: the clean addresses built from them so far

vars == <<users, users0, pc, run, task, userResp, addrResp, userCalls, addrCalls, tallied,
          success_count, partial_count, failed_count, client, saved, writes, saveCalls,
          summary, addrPayload, outcome, addresses_raw, clean_addresses>>

Idx == DOMAIN users

NoTask == [pc |-> "none", index |-> 0, any_address_failed |-> FALSE, result |-> NULL]

Settled == {"returned", "raised"}

\* ------------------------------------------------------- upload_data.py
\* Variant: no check of the response; whatever came back is taken for a
\* created user.
_post_user_accepting_any_response(u, i, o) ==
    LET r == _request(o)
    IN  IF r.exc = NULL
        THEN [user |-> u, ret |-> ServerCustomerId(i), exc |-> NULL]
        ELSE IF r.exc \in ApiClientErrorFamily
        THEN IF ApiClientError_str(r.exc) # NULL
             THEN [user |-> u, ret |-> NULL, exc |-> ApiClientError_str(r.exc)]
             ELSE [user |-> [u EXCEPT !.error_message = "User creation failed"],
                   ret |-> NULL, exc |-> NULL]
        ELSE [user |-> [u EXCEPT !.error_message = "Unexpected user creation error"],
              ret |-> NULL, exc |-> NULL]

\* _post_user, from the await of client.post on.  ret is the returned
\* customer_id (NULL for None); exc is an exception leaving the function.
_post_user(u, i, o) ==
    LET r == _request(o)
        e == IF r.exc # NULL THEN r.exc
             ELSE IF r.value \in {"None", "zero_id"}
                  THEN ApiResponseValidationError_init
                  ELSE NULL
    IN  IF e = NULL
        THEN [user |-> u, ret |-> ServerCustomerId(i), exc |-> NULL]
        ELSE IF e \in ApiClientErrorFamily
        THEN IF ApiClientError_str(e) # NULL
             THEN [user |-> u, ret |-> NULL, exc |-> ApiClientError_str(e)]
             ELSE [user |-> [u EXCEPT !.error_message = "User creation failed"],
                   ret |-> NULL, exc |-> NULL]
        ELSE [user |-> [u EXCEPT !.error_message = "Unexpected user creation error"],
              ret |-> NULL, exc |-> NULL]

\* Variant: the generic handler of the address loop marks the address failed
\* without storing the reason.
_post_addresses_without_message(a, i, k, o) ==
    LET r == _request(o)
        e == IF r.exc # NULL THEN r.exc
             ELSE IF r.value \in {"None", "zero_id"}
                  THEN ApiResponseValidationError_init
                  ELSE NULL
    IN  IF e = NULL
        THEN [address |-> [a EXCEPT !.id = ServerAddressId(i, k),
                                    !.upload_status = "success"],
              failed |-> FALSE, exc |-> NULL]
        ELSE IF e \in ApiClientErrorFamily /\ ApiClientError_str(e) # NULL
        THEN [address |-> a, failed |-> FALSE, exc |-> ApiClientError_str(e)]
        ELSE [address |-> [a EXCEPT !.upload_status = "failed"],
              failed |-> TRUE, exc |-> NULL]

\* Variant: the generic handler of the address loop marks the address failed
\* without reporting the failure to upload_user.
_post_addresses_fault_not_counted(a, i, k, o) ==
    LET r == _request(o)
        e == IF r.exc # NULL THEN r.exc
             ELSE IF r.value \in {"None", "zero_id"}
                  THEN ApiResponseValidationError_init
                  ELSE NULL
    IN  IF e = NULL
        THEN [address |-> [a EXCEPT !.id = ServerAddressId(i, k),
                                    !.upload_status = "success"],
              failed |-> FALSE, exc |-> NULL]
        ELSE IF e \in ApiClientErrorFamily /\ ApiClientError_str(e) # NULL
        THEN [address |-> a, failed |-> FALSE, exc |-> ApiClientError_str(e)]
        ELSE [address |-> [a EXCEPT !.upload_status = "failed",
                                    !.error_message = "Unexpected error"],
              failed |-> FALSE, exc |-> NULL]

\* Variant: a created address is replaced by a new object built from the
\* response instead of being updated in place.
_post_addresses_replacing_address(a, i, k, o) ==
    LET r == _request(o)
        e == IF r.exc # NULL THEN r.exc
             ELSE IF r.value \in {"None", "zero_id"}
                  THEN ApiResponseValidationError_init
                  ELSE NULL
    IN  IF e = NULL
        THEN [address |-> [id |-> ServerAddressId(i, k), upload_status |-> "success",
                           error_message |-> NULL, loc_type |-> 0],
              failed |-> FALSE, exc |-> NULL]
        ELSE IF e \in ApiClientErrorFamily /\ ApiClientError_str(e) # NULL
        THEN [address |-> a, failed |-> FALSE, exc |-> ApiClientError_str(e)]
        ELSE [address |-> [a EXCEPT !.upload_status = "failed",
                                    !.error_message = "Unexpected error"],
              failed |-> TRUE, exc |-> NULL]

\* Variant: no check of the response; whatever came back marks the address
\* created, with the identifier the body had, if any.
_post_addresses_accepting_any_response(a, i, k, o) ==
    LET r == _request(o)
    IN  IF r.exc = NULL
        THEN [address |-> [a EXCEPT !.id = IF r.value = "valid"
                                           THEN ServerAddressId(i, k) ELSE NULL,
                                    !.upload_status = "success"],
              failed |-> FALSE, exc |-> NULL]
        ELSE IF r.exc \in ApiClientErrorFamily /\ ApiClientError_str(r.exc) # NULL
        THEN [address |-> a, failed |-> FALSE, exc |-> ApiClientError_str(r.exc)]
        ELSE [address |-> [a EXCEPT !.upload_status = "failed",
                                    !.error_message = "Unexpected error"],
              failed |-> TRUE, exc |-> NULL]

\* One iteration of the loop of _post_addresses, from the await of
\* client.post on, for address k of record i.
_post_addresses(a, i, k, o) ==
    LET r == _request(o)
        e == IF r.exc # NULL THEN r.exc
             ELSE IF r.value \in {"None", "zero_id"}
                  THEN ApiResponseValidationError_init
                  ELSE NULL
    IN  IF e = NULL
        THEN [address |-> [a EXCEPT !.id = ServerAddressId(i, k),
                                    !.upload_status = "success"],
              failed |-> FALSE, exc |-> NULL]
        ELSE IF e \in ApiClientErrorFamily
        THEN IF ApiClientError_str(e) # NULL
             THEN [address |-> a, failed |-> FALSE, exc |-> ApiClientError_str(e)]
             ELSE [address |-> [a EXCEPT !.upload_status = "failed",
                                         !.error_message = "str(e)"],
                   failed |-> TRUE, exc |-> NULL]
        ELSE [address |-> [a EXCEPT !.upload_status = "failed",
                                    !.error_message = "Unexpected error"],
              failed |-> TRUE, exc |-> NULL]

\* Variant: every address from position k on gets a request, created or not.
NextAddress_without_skip(addrs, k) ==
    IF k <= Len(addrs) THEN k ELSE 0

\* Variant: after each address the loop starts over, so an address whose
\* request failed, its id still unset, is sent again.
NextAddress_from_start(addrs, k) ==
    LET todo == {j \in 1..Len(addrs) : addrs[j].id = NULL}
    IN  IF todo = {} \/ k > Len(addrs) + 1 THEN 0 ELSE CHOOSE j \in todo : \A m \in todo : j <= m

\* The loop of _post_addresses skips addresses whose id is set: the next
\* address at or after position k that gets a request (0: none is left).
NextAddress(addrs, k) ==
    LET todo == {j \in k..Len(addrs) : addrs[j].id = NULL}
    IN  IF todo = {} THEN 0 ELSE CHOOSE j \in todo : \A m \in todo : j <= m

\* _post_custom_fields: not implemented, reports success.
_post_custom_fields == TRUE

\* Variant: looks for a successful address before looking at the step results.
FinalStatus_any_success_first(u, all_addresses_succeeded) ==
    IF \E j \in DOMAIN u.addresses : u.addresses[j].upload_status = "success"
    THEN [u EXCEPT !.upload_status = "partial",
                   !.error_message = "User created, but one or more addresses/fields failed."]
    ELSE IF all_addresses_succeeded
    THEN [u EXCEPT !.upload_status = "success"]
    ELSE [u EXCEPT !.upload_status = "failed",
                   !.error_message = "User created, but all addresses/fields failed."]

\* Variant: an empty address list counts as "nothing succeeded".
FinalStatus_empty_list_fails(u, all_addresses_succeeded) ==
    IF all_addresses_succeeded /\ u.addresses # <<>>
    THEN [u EXCEPT !.upload_status = "success"]
    ELSE IF \E j \in DOMAIN u.addresses : u.addresses[j].upload_status = "success"
    THEN [u EXCEPT !.upload_status = "partial",
                   !.error_message = "User created, but one or more addresses/fields failed."]
    ELSE [u EXCEPT !.upload_status = "failed",
                   !.error_message = "User created, but all addresses/fields failed."]

\* Variant: a record none of whose addresses could be created gives its
\* customer_id up again, to be retried as a whole.
FinalStatus_clearing_id_on_failure(u, all_addresses_succeeded) ==
    IF all_addresses_succeeded /\ _post_custom_fields
    THEN [u EXCEPT !.upload_status = "success"]
    ELSE IF \E j \in DOMAIN u.addresses : u.addresses[j].upload_status = "success"
    THEN [u EXCEPT !.upload_status = "partial",
                   !.error_message = "User created, but one or more addresses/fields failed."]
    ELSE [u EXCEPT !.upload_status = "failed",
                   !.customer_id = NULL,
                   !.error_message = "User created, but all addresses/fields failed."]

\* upload_user, step 4: the final status of a record whose user was created.
FinalStatus(u, all_addresses_succeeded) ==
    IF all_addresses_succeeded /\ _post_custom_fields
    THEN [u EXCEPT !.upload_status = "success"]
    ELSE IF \E j \in DOMAIN u.addresses : u.addresses[j].upload_status = "success"
    THEN [u EXCEPT !.upload_status = "partial",
                   !.error_message = "User created, but one or more addresses/fields failed."]
    ELSE [u EXCEPT !.upload_status = "failed",
                   !.error_message = "User created, but all addresses/fields failed."]

\* upload_user from position k of the address loop up to its next await or
\* its return: the record, the task and the request issued (0: none).
\* Variant: the address payload is built without the customer identifier.
Proceed_without_customer_id(u, k, any_failed) ==
    LET n == NextAddress(u.addresses, k)
    IN  IF n # 0
        THEN [user |-> [u EXCEPT !.addresses[n].upload_status = "processing"],
              task |-> [pc |-> "address", index |-> n,
                        any_address_failed |-> any_failed, result |-> NULL],
              sent |-> n, customer_id |-> NULL]
        ELSE [user |-> FinalStatus(u, ~any_failed),
              task |-> [pc |-> "returned", index |-> 0,
                        any_address_failed |-> any_failed, result |-> NULL],
              sent |-> 0, customer_id |-> NULL]

\* Variant: marks the record failed as soon as one address has failed, while
\* later addresses are still to be sent.
Proceed_marks_failed_early(u, k, any_failed) ==
    LET n == NextAddress(u.addresses, k)
    IN  IF n # 0
        THEN [user |-> [u EXCEPT !.addresses[n].upload_status = "processing",
                                 !.upload_status = IF any_failed THEN "failed" ELSE @],
              task |-> [pc |-> "address", index |-> n,
                        any_address_failed |-> any_failed, result |-> NULL],
              sent |-> n, customer_id |-> u.customer_id]
        ELSE [user |-> FinalStatus(u, ~any_failed),
              task |-> [pc |-> "returned", index |-> 0,
                        any_address_failed |-> any_failed, result |-> NULL],
              sent |-> 0, customer_id |-> NULL]

Proceed(u, k, any_failed) ==
    LET n == NextAddress(u.addresses, k)
    IN  IF n # 0
        THEN [user |-> [u EXCEPT !.addresses[n].upload_status = "processing"],
              task |-> [pc |-> "address", index |-> n,
                        any_address_failed |-> any_failed, result |-> NULL],
              sent |-> n, customer_id |-> u.customer_id]
        ELSE [user |-> FinalStatus(u, ~any_failed),
              task |-> [pc |-> "returned", index |-> 0,
                        any_address_failed |-> any_failed, result |-> NULL],
              sent |-> 0, customer_id |-> NULL]

\* Variant: no defaulting of an exception or an unrecognised status to failed.
TallyStatus_without_default(u, t) == u.upload_status

\* Variant: no defaulting at all, and the counting falls through to success
\* for every status that is neither partial nor failed.
TallyStatus_unrecognised_as_success(u, t) ==
    IF u.upload_status \in {"partial", "failed"} THEN u.upload_status ELSE "success"

\* run_bulk_upload, the loop over results: the status one record is counted
\* under.  t is the record's task; t.result is the exception gather returned.
TallyStatus(u, t) ==
    LET forced == IF t.result # NULL /\ u.upload_status \notin {"failed", "partial"}
                  THEN "failed"
                  ELSE u.upload_status
    IN  IF forced \notin {"success", "partial", "failed"} THEN "failed" ELSE forced

\* The same loop: the record as the loop leaves it.  Only error_message is
\* assigned; final_status is a local of the loop.
TallyUser(u, t) ==
    LET m == IF /\ t.result # NULL
                /\ u.upload_status \notin {"failed", "partial"}
                /\ u.error_message = NULL
             THEN "Unexpected task failure"
             ELSE u.error_message
    IN  [u EXCEPT !.error_message =
            IF m = NULL
            THEN "Processing did not complete or ended in unexpected state."
            ELSE m]

\* utils.save_to_json: what can happen to the write.  Every failure is
\* caught and logged inside save_to_json.
SaveOutcomes == {"ok", "TypeError", "IOError", "Exception"}

\* Variant: no skipping of records that already have a customer_id.
ToProcess_every_record == Idx

\* Variant: selects by upload_status instead of customer_id.
ToProcess_by_status == {i \in Idx : users[i].upload_status # "success"}

\* Variant: a created user with an address still to create gets a task again.
ToProcess_with_unfinished_addresses ==
    {i \in Idx : \/ users[i].customer_id = NULL
                 \/ \E k \in DOMAIN users[i].addresses : users[i].addresses[k].id = NULL}

\* run_bulk_upload, the partition: the indices that get a task.
ToProcess == {i \in Idx : users[i].customer_id = NULL}

Callable == pc \in {"idle", "done", "returned"} /\ run < MaxRuns

\* The state a call of run_bulk_upload starts from.
Enter ==
    /\ run' = run + 1
    /\ users0' = users
    /\ success_count' = 0
    /\ partial_count' = 0
    /\ failed_count' = 0
    /\ userResp' = [i \in Idx |-> NoResponse]
    /\ addrResp' = [i \in Idx |-> NoResponse]
    /\ userCalls' = [i \in Idx |-> 0]
    /\ addrCalls' = [i \in Idx |-> [k \in DOMAIN users[i].addresses |-> 0]]
    /\ addrPayload' = [i \in Idx |-> [k \in DOMAIN users[i].addresses |-> NULL]]
    /\ tallied' = [i \in Idx |-> NULL]
    /\ writes' = 0
    /\ saveCalls' = 0
    /\ summary' = NULL
    /\ client' = "open"
    /\ saved' = NULL
    /\ UNCHANGED <<users, addresses_raw, clean_addresses, outcome>>

\* ---------------------------------------------------------------- actions
Init ==
    /\ \E n \in 0..MaxUsers : \E f \in [1..n -> InitUsers] :
          users = [i \in 1..n |-> [password |-> DocumentId(i)] @@ f[i]]
    /\ users0 = users
    /\ pc = "idle"
    /\ run = 0
    /\ task = [i \in DOMAIN users |-> NoTask]
    /\ userResp = [i \in DOMAIN users |-> NoResponse]
    /\ addrResp = [i \in DOMAIN users |-> NoResponse]
    /\ userCalls = [i \in DOMAIN users |-> 0]
    /\ addrCalls = [i \in DOMAIN users |-> [k \in DOMAIN users[i].addresses |-> 0]]
    /\ addrPayload = [i \in DOMAIN users |-> [k \in DOMAIN users[i].addresses |-> NULL]]
    /\ tallied = [i \in DOMAIN users |-> NULL]
    /\ success_count = 0
    /\ partial_count = 0
    /\ failed_count = 0
    /\ client = "none"
    /\ saved = NULL
    /\ writes = 0
    /\ saveCalls = 0
    /\ summary = NULL
    /\ addresses_raw = <<>>
    /\ clean_addresses = <<>>
    /\ outcome = NULL

\* run_bulk_upload up to `await asyncio.gather`: one task per record whose
\* customer_id is None.
run_bulk_upload ==
    /\ Callable
    /\ ToProcess # {}
    /\ Enter
    /\ task' = [i \in Idx |->
                  IF i \in ToProcess THEN [NoTask EXCEPT !.pc = "created"] ELSE NoTask]
    /\ pc' = "gather"

\* Variant: no `return` after the warning; the run goes on to an empty
\* gather, the save and the summary.
nothing_to_upload_without_return ==
    /\ Callable
    /\ ToProcess = {}
    /\ Enter
    /\ task' = [i \in Idx |-> NoTask]
    /\ pc' = "closing"

\* run_bulk_upload when no record needs processing: `return` inside the
\* `async with`, whose exit awaits client.close().
nothing_to_upload ==
    /\ Callable
    /\ ToProcess = {}
    /\ Enter
    /\ task' = [i \in Idx |-> NoTask]
    /\ pc' = "closing_early"

\* Variant: the early return leaves without closing the client.
return_early_without_close ==
    /\ pc = "closing_early"
    /\ pc' = "returned"
    /\ UNCHANGED <<users, users0, run, task, userResp, addrResp, userCalls, addrCalls, addrPayload, tallied,
                   success_count, partial_count, failed_count, client, saved, writes,
                   saveCalls, summary,
                   addresses_raw, clean_addresses, outcome>>

return_early ==
    /\ pc = "closing_early"
    /\ client' = "closed"
    /\ pc' = "returned"
    /\ UNCHANGED <<users, users0, run, task, userResp, addrResp, userCalls, addrCalls, addrPayload, tallied,
                   success_count, partial_count, failed_count, saved, writes, saveCalls, summary,
                   addresses_raw, clean_addresses, outcome>>

\* Variant: every task is handed the last record of the list instead of its
\* own, so its first step writes there.
upload_user_on_last_record(i) ==
    /\ task[i].pc = "created"
    /\ IF users[i].email = NULL
       THEN /\ users' = [users EXCEPT ![Len(users)].upload_status = "failed",
                                      ![Len(users)].error_message =
                                          "Unexpected user creation error"]
            /\ task' = [task EXCEPT ![i].pc = "returned"]
            /\ UNCHANGED userCalls
       ELSE /\ users' = [users EXCEPT ![Len(users)].upload_status = "processing"]
            /\ userCalls' = [userCalls EXCEPT ![i] = @ + 1]
            /\ task' = [task EXCEPT ![i].pc = "user"]
    /\ UNCHANGED <<users0, pc, run, userResp, addrResp, addrCalls, addrPayload, tallied, success_count,
                   partial_count, failed_count, client, saved, writes, saveCalls, summary,
                   addresses_raw, clean_addresses, outcome>>

\* upload_user up to the await of the create-user request.  Building
\* PostUserYelo from a record without email raises a pydantic
\* ValidationError, which the `except Exception` of _post_user turns into
\* None before any request is sent.
upload_user(i) ==
    /\ task[i].pc = "created"
    /\ IF users[i].email = NULL
       THEN /\ users' = [users EXCEPT ![i].upload_status = "failed",
                                      ![i].error_message = "Unexpected user creation error"]
            /\ task' = [task EXCEPT ![i].pc = "returned"]
            /\ UNCHANGED userCalls
       ELSE /\ users' = [users EXCEPT ![i].upload_status = "processing"]
            /\ userCalls' = [userCalls EXCEPT ![i] = @ + 1]
            /\ task' = [task EXCEPT ![i].pc = "user"]
    /\ UNCHANGED <<users0, pc, run, userResp, addrResp, addrCalls, addrPayload, tallied, success_count,
                   partial_count, failed_count, client, saved, writes, saveCalls, summary,
                   addresses_raw, clean_addresses, outcome>>

\* Variant: the records are uploaded one after the other, so a response is
\* taken only when every record earlier in the list has settled.
user_response_in_order(i, o) ==
    /\ task[i].pc = "user"
    /\ \A j \in Idx : j < i => task[j].pc \in Settled \cup {"none"}
    /\ userResp' = [userResp EXCEPT ![i] = _request(o)]
    /\ LET p == _post_user(users[i], i, o)
           q == Proceed([p.user EXCEPT !.customer_id = p.ret], 1, FALSE)
       IN  IF p.exc # NULL
           THEN /\ users' = [users EXCEPT ![i] = p.user]
                /\ task' = [task EXCEPT ![i].pc = "raised", ![i].result = p.exc]
                /\ UNCHANGED <<addrCalls, addrPayload>>
           ELSE IF p.ret = NULL
           THEN /\ users' = [users EXCEPT ![i] = [p.user EXCEPT !.upload_status = "failed"]]
                /\ task' = [task EXCEPT ![i].pc = "returned"]
                /\ UNCHANGED <<addrCalls, addrPayload>>
           ELSE /\ users' = [users EXCEPT ![i] = q.user]
                /\ task' = [task EXCEPT ![i] = q.task]
                /\ addrCalls' = IF q.sent = 0 THEN addrCalls
                                ELSE [addrCalls EXCEPT ![i][q.sent] = @ + 1]
                /\ addrPayload' = IF q.sent = 0 THEN addrPayload
                                  ELSE [addrPayload EXCEPT ![i][q.sent] = q.customer_id]
    /\ UNCHANGED <<users0, pc, run, addrResp, userCalls, tallied, success_count, partial_count,
                   failed_count, client, saved, writes, saveCalls, summary,
                   addresses_raw, clean_addresses, outcome>>

\* The create-user request of record i completes with outcome o; upload_user
\* runs on to its next await, its return or the exception that ends it.
user_response(i, o) ==
    /\ task[i].pc = "user"
    /\ userResp' = [userResp EXCEPT ![i] = _request(o)]
    /\ LET p == _post_user(users[i], i, o)
           q == Proceed([p.user EXCEPT !.customer_id = p.ret], 1, FALSE)
       IN  IF p.exc # NULL
           THEN /\ users' = [users EXCEPT ![i] = p.user]
                /\ task' = [task EXCEPT ![i].pc = "raised", ![i].result = p.exc]
                /\ UNCHANGED <<addrCalls, addrPayload>>
           ELSE IF p.ret = NULL
           THEN /\ users' = [users EXCEPT ![i] = [p.user EXCEPT !.upload_status = "failed"]]
                /\ task' = [task EXCEPT ![i].pc = "returned"]
                /\ UNCHANGED <<addrCalls, addrPayload>>
           ELSE /\ users' = [users EXCEPT ![i] = q.user]
                /\ task' = [task EXCEPT ![i] = q.task]
                /\ addrCalls' = IF q.sent = 0 THEN addrCalls
                                ELSE [addrCalls EXCEPT ![i][q.sent] = @ + 1]
                /\ addrPayload' = IF q.sent = 0 THEN addrPayload
                                  ELSE [addrPayload EXCEPT ![i][q.sent] = q.customer_id]
    /\ UNCHANGED <<users0, pc, run, addrResp, userCalls, tallied, success_count, partial_count,
                   failed_count, client, saved, writes, saveCalls, summary,
                   addresses_raw, clean_addresses, outcome>>

\* Variant: any_address_failed is one flag shared by all workers instead of
\* a local of each call of _post_addresses.
address_response_shared_flag(i, o) ==
    /\ task[i].pc = "address"
    /\ addrResp' = [addrResp EXCEPT ![i] = _request(o)]
    /\ LET k == task[i].index
           p == _post_addresses(users[i].addresses[k], i, k, o)
           u == [users[i] EXCEPT !.addresses[k] = p.address]
           q == Proceed(u, k + 1, (\E j \in Idx : task[j].any_address_failed) \/ p.failed)
       IN  IF p.exc # NULL
           THEN /\ users' = [users EXCEPT ![i] = u]
                /\ task' = [task EXCEPT ![i].pc = "raised", ![i].result = p.exc]
                /\ UNCHANGED <<addrCalls, addrPayload>>
           ELSE /\ users' = [users EXCEPT ![i] = q.user]
                /\ task' = [task EXCEPT ![i] = q.task]
                /\ addrCalls' = IF q.sent = 0 THEN addrCalls
                                ELSE [addrCalls EXCEPT ![i][q.sent] = @ + 1]
                /\ addrPayload' = IF q.sent = 0 THEN addrPayload
                                  ELSE [addrPayload EXCEPT ![i][q.sent] = q.customer_id]
    /\ UNCHANGED <<users0, pc, run, userResp, userCalls, tallied, success_count, partial_count,
                   failed_count, client, saved, writes, saveCalls, summary,
                   addresses_raw, clean_addresses, outcome>>

\* The create-address request of record i completes with outcome o.
address_response(i, o) ==
    /\ task[i].pc = "address"
    /\ addrResp' = [addrResp EXCEPT ![i] = _request(o)]
    /\ LET k == task[i].index
           p == _post_addresses(users[i].addresses[k], i, k, o)
           u == [users[i] EXCEPT !.addresses[k] = p.address]
           q == Proceed(u, k + 1, task[i].any_address_failed \/ p.failed)
       IN  IF p.exc # NULL
           THEN /\ users' = [users EXCEPT ![i] = u]
                /\ task' = [task EXCEPT ![i].pc = "raised", ![i].result = p.exc]
                /\ UNCHANGED <<addrCalls, addrPayload>>
           ELSE /\ users' = [users EXCEPT ![i] = q.user]
                /\ task' = [task EXCEPT ![i] = q.task]
                /\ addrCalls' = IF q.sent = 0 THEN addrCalls
                                ELSE [addrCalls EXCEPT ![i][q.sent] = @ + 1]
                /\ addrPayload' = IF q.sent = 0 THEN addrPayload
                                  ELSE [addrPayload EXCEPT ![i][q.sent] = q.customer_id]
    /\ UNCHANGED <<users0, pc, run, userResp, userCalls, tallied, success_count, partial_count,
                   failed_count, client, saved, writes, saveCalls, summary,
                   addresses_raw, clean_addresses, outcome>>

Launched == {i \in Idx : task[i].pc # "none"}

\* The list indices of the records that got a task, in list order.
users_to_process_indices ==
    [n \in 1..Cardinality(Launched) |->
        CHOOSE i \in Launched : Cardinality({j \in Launched : j < i}) = n - 1]

\* What gather returns: one entry per task of tasks_to_run, in that order.
results == [n \in DOMAIN users_to_process_indices |-> task[users_to_process_indices[n]]]

\* Variant: takes the position in the results for the list index.
original_index_by_position(n) == n

\* The list index of the record the n-th result belongs to.
original_index(n) == users_to_process_indices[n]

\* Variant: gather without return_exceptions=True re-raises the first
\* exception of a task in run_bulk_upload, which then leaves without a tally.
gather_raises ==
    /\ pc = "gather"
    /\ \E i \in Launched : task[i].pc = "raised"
    /\ pc' = "raised"
    /\ client' = "closed"
    /\ UNCHANGED <<users, users0, run, task, userResp, addrResp, userCalls, addrCalls, addrPayload,
                   tallied, success_count, partial_count, failed_count, saved, writes, saveCalls,
                   summary,
                   addresses_raw, clean_addresses, outcome>>

\* Variant: the loop over the results also saves the list.
gather_returns_and_saves ==
    /\ pc = "gather"
    /\ \A i \in Launched : task[i].pc \in Settled
    /\ LET visited(i) == {n \in DOMAIN results : original_index(n) = i}
           final_status(n) == TallyStatus(users[original_index(n)], results[n])
       IN  /\ users' = [i \in Idx |->
                          IF visited(i) = {} THEN users[i]
                          ELSE TallyUser(users[i], results[CHOOSE n \in visited(i) : TRUE])]
           /\ tallied' = [i \in Idx |->
                            IF visited(i) = {} THEN NULL
                            ELSE final_status(CHOOSE n \in visited(i) : TRUE)]
           /\ success_count' = Cardinality({n \in DOMAIN results : final_status(n) = "success"})
           /\ partial_count' = Cardinality({n \in DOMAIN results : final_status(n) = "partial"})
           /\ failed_count' = Cardinality({n \in DOMAIN results : final_status(n) = "failed"})
    /\ saveCalls' = saveCalls + 1
    /\ writes' = writes + 1
    /\ saved' = users'
    /\ pc' = "closing"
    /\ UNCHANGED <<users0, run, task, userResp, addrResp, userCalls, addrCalls, addrPayload, client, summary,
                   addresses_raw, clean_addresses, outcome>>

\* asyncio.gather(*tasks, return_exceptions=True) returns once every task
\* has settled; the loop over the results visits them by position, looks the
\* record up through users_to_process_indices and tallies it.
gather_returns ==
    /\ pc = "gather"
    /\ \A i \in Launched : task[i].pc \in Settled
    /\ LET visited(i) == {n \in DOMAIN results : original_index(n) = i}
           final_status(n) == TallyStatus(users[original_index(n)], results[n])
       IN  /\ users' = [i \in Idx |->
                          IF visited(i) = {} THEN users[i]
                          ELSE TallyUser(users[i], results[CHOOSE n \in visited(i) : TRUE])]
           /\ tallied' = [i \in Idx |->
                            IF visited(i) = {} THEN NULL
                            ELSE final_status(CHOOSE n \in visited(i) : TRUE)]
           /\ success_count' = Cardinality({n \in DOMAIN results : final_status(n) = "success"})
           /\ partial_count' = Cardinality({n \in DOMAIN results : final_status(n) = "partial"})
           /\ failed_count' = Cardinality({n \in DOMAIN results : final_status(n) = "failed"})
    /\ pc' = "closing"
    /\ UNCHANGED <<users0, run, task, userResp, addrResp, userCalls, addrCalls, addrPayload, client, saved,
                   writes, saveCalls, summary,
                   addresses_raw, clean_addresses, outcome>>

\* Variant: save_to_json lets a failure of the write out, and run_bulk_upload
\* ends with it before the summary.
finish_save_raises(s) ==
    /\ pc = "closing"
    /\ client' = "closed"
    /\ saved' = IF s = "ok" THEN users ELSE saved
    /\ writes' = IF s = "ok" THEN writes + 1 ELSE writes
    /\ saveCalls' = saveCalls + 1
    /\ summary' = IF s = "ok"
                  THEN [total |-> Len(users), success |-> success_count,
                        partial |-> partial_count, failed |-> failed_count]
                  ELSE summary
    /\ pc' = IF s = "ok" THEN "done" ELSE "raised"
    /\ UNCHANGED <<users, users0, run, task, userResp, addrResp, userCalls, addrCalls, addrPayload, tallied,
                   success_count, partial_count, failed_count, addresses_raw, clean_addresses, outcome>>

\* The end of run_bulk_upload: the `async with` closes the client, then
\* save_to_json and the summary.
finish(s) ==
    /\ pc = "closing"
    /\ client' = "closed"
    /\ saved' = IF s = "ok" THEN users ELSE saved
    /\ writes' = IF s = "ok" THEN writes + 1 ELSE writes
    /\ saveCalls' = saveCalls + 1
    /\ summary' = [total |-> Len(users), success |-> success_count,
                   partial |-> partial_count, failed |-> failed_count]
    /\ pc' = "done"
    /\ UNCHANGED <<users, users0, run, task, userResp, addrResp, userCalls, addrCalls, addrPayload, tallied,
                   success_count, partial_count, failed_count,
                   addresses_raw, clean_addresses, outcome>>

Next ==
    \/ run_bulk_upload
    \/ nothing_to_upload
    \/ return_early
    \/ \E i \in Idx : upload_user(i)
    \/ \E i \in Idx, o \in HttpOutcomes : user_response(i, o)
    \/ \E i \in Idx, o \in HttpOutcomes : address_response(i, o)
    \/ gather_returns
    \/ \E s \in SaveOutcomes : finish(s)

Spec == Init /\ [][Next]_vars

\* ------------------------------------------------------- main_clean.py
\* Step 6 of the cleaning script, the loop that turns one grouped user's
\* raw addresses into CleanAddress dictionaries.  The upload has not started.
RawAddress == {[address |-> "x"], [address |-> "y"]}

InitClean ==
    /\ addresses_raw \in UNION {[1..n -> RawAddress] : n \in 0..MaxRawAddrs}
    /\ clean_addresses = <<>>
    /\ users = <<>>
    /\ users0 = <<>>
    /\ pc = "idle"
    /\ run = 0
    /\ task = <<>>
    /\ userResp = <<>>
    /\ addrResp = <<>>
    /\ userCalls = <<>>
    /\ addrCalls = <<>>
    /\ addrPayload = <<>>
    /\ tallied = <<>>
    /\ success_count = 0
    /\ partial_count = 0
    /\ failed_count = 0
    /\ client = "none"
    /\ saved = NULL
    /\ writes = 0
    /\ saveCalls = 0
    /\ summary = NULL
    /\ outcome = NULL

\* One iteration: enumerate() hands out the next raw address with its index.
clean_address ==
    /\ Len(clean_addresses) < Len(addresses_raw)
    /\ LET index == Len(clean_addresses)
           addr == addresses_raw[index + 1]
       IN  clean_addresses' =
               Append(clean_addresses,
                      [address |-> addr.address, loc_type |-> loc_type_value(index),
                       id |-> NULL, upload_status |-> NULL])
    /\ UNCHANGED <<users, users0, pc, run, task, userResp, addrResp, userCalls, addrCalls, addrPayload,
                   tallied, success_count, partial_count, failed_count, client, saved, writes,
                   saveCalls, summary, outcome, addresses_raw>>

NextClean == clean_address

CleanSpec == InitClean /\ [][NextClean]_vars

\* ------------------------------------------------ a batch of three records
\* users_data = [A, B, C], none uploaded yet: A with one address, B with
\* two, C with one.
BatchABC ==
    [i \in 1..BatchSize |->
        [password |-> DocumentId(i), customer_id |-> NULL, upload_status |-> NULL,
         error_message |-> NULL, email |-> "e",
         addresses |-> Positioned([k \in 1..(IF i = 2 THEN 2 ELSE 1) |-> FreshAddress])]]

InitABC ==
    /\ users = BatchABC
    /\ users0 = users
    /\ pc = "idle"
    /\ run = MaxRuns - 1
    /\ task = [i \in DOMAIN users |-> NoTask]
    /\ userResp = [i \in DOMAIN users |-> NoResponse]
    /\ addrResp = [i \in DOMAIN users |-> NoResponse]
    /\ userCalls = [i \in DOMAIN users |-> 0]
    /\ addrCalls = [i \in DOMAIN users |-> [k \in DOMAIN users[i].addresses |-> 0]]
    /\ addrPayload = [i \in DOMAIN users |-> [k \in DOMAIN users[i].addresses |-> NULL]]
    /\ tallied = [i \in DOMAIN users |-> NULL]
    /\ success_count = 0
    /\ partial_count = 0
    /\ failed_count = 0
    /\ client = "none"
    /\ saved = NULL
    /\ writes = 0
    /\ saveCalls = 0
    /\ summary = NULL
    /\ addresses_raw = <<>>
    /\ clean_addresses = <<>>
    /\ outcome = NULL

\* One call of run_bulk_upload on the batch.
NextABC ==
    \/ run_bulk_upload
    \/ \E i \in Idx : upload_user(i)
    \/ \E i \in Idx, o \in HttpOutcomes : user_response(i, o)
    \/ \E i \in Idx, o \in HttpOutcomes : address_response(i, o)
    \/ gather_returns
    \/ \E s \in SaveOutcomes : finish(s)

SpecABC == InitABC /\ [][NextABC]_vars

\* ------------------------------------------------- one run, outcomes fixed
\* One outcome for each way a request can end for its caller: a valid body,
\* an empty body, a transport exception, a status error, an exception
\* _request has no handler for.
FixedOutcomes == {"valid", "no_content", "timeout", "http_error", "fault"}

\* The requests a run over the list us can send: a create-user request for
\* each record without customer_id, a create-address request for each of
\* its addresses without id.
UserRequests(us) == {i \in DOMAIN us : us[i].customer_id = NULL}

AddressRequests(us) ==
    {c \in UserRequests(us) \X (1..MaxAddrs) :
        /\ c[2] \in DOMAIN us[c[1]].addresses
        /\ us[c[1]].addresses[c[2]].id = NULL}

\* A list as in Init, and what the remote API will answer to each request
\* of the one call of run_bulk_upload that follows.
InitFixed ==
    /\ \E n \in 0..MaxUsers : \E f \in [1..n -> InitUsers] :
          users = [i \in 1..n |-> [password |-> DocumentId(i)] @@ f[i]]
    /\ outcome \in [user : [UserRequests(users) -> FixedOutcomes],
                     addr : [AddressRequests(users) -> FixedOutcomes]]
    /\ users0 = users
    /\ pc = "idle"
    /\ run = MaxRuns - 1
    /\ task = [i \in DOMAIN users |-> NoTask]
    /\ userResp = [i \in DOMAIN users |-> NoResponse]
    /\ addrResp = [i \in DOMAIN users |-> NoResponse]
    /\ userCalls = [i \in DOMAIN users |-> 0]
    /\ addrCalls = [i \in DOMAIN users |-> [k \in DOMAIN users[i].addresses |-> 0]]
    /\ addrPayload = [i \in DOMAIN users |-> [k \in DOMAIN users[i].addresses |-> NULL]]
    /\ tallied = [i \in DOMAIN users |-> NULL]
    /\ success_count = 0
    /\ partial_count = 0
    /\ failed_count = 0
    /\ client = "none"
    /\ saved = NULL
    /\ writes = 0
    /\ saveCalls = 0
    /\ summary = NULL
    /\ addresses_raw = <<>>
    /\ clean_addresses = <<>>

\* The responses arrive in any order, each with the outcome fixed for it.
NextFixed ==
    \/ run_bulk_upload
    \/ nothing_to_upload
    \/ return_early
    \/ \E i \in Idx : upload_user(i)
    \/ \E i \in Idx : task[i].pc = "user" /\ user_response(i, outcome.user[i])
    \/ \E i \in Idx : /\ task[i].pc = "address"
                       /\ address_response(i, outcome.addr[<<i, task[i].index>>])
    \/ gather_returns
    \/ \E s \in SaveOutcomes : finish(s)

SpecFixed == InitFixed /\ [][NextFixed]_vars

\* ----------------------------------------------------------------- claims
\* run_bulk_upload has returned (normally, or early with nothing to upload).
Finished == pc \in {"done", "returned"}

\* The records whose customer_id was None when run_bulk_upload was called.
ToProcess0 == {i \in Idx : users0[i].customer_id = NULL}

AddressIdx(i) == DOMAIN users[i].addresses

\* What client.post raises for the failures the Transport Client declares:
\* timeout, connection failure, HTTP status error, response-shape error,
\* generic client error.
TransportFailures ==
    {"timeout", "connect_error", "http_error", "wrong_status", "not_json",
     "bad_shape", "request_error"}

UserCallFailed(i) ==
    userResp[i] \in {_request(o) : o \in TransportFailures}

UserCreated(i) == userResp[i] = Returned("valid")

NoAddressCall(i) == \A k \in AddressIdx(i) : addrCalls[i][k] = 0

\* Address k of record i was created by a request of this run.
AddressCreated(i, k) ==
    /\ addrCalls[i][k] = 1
    /\ users[i].addresses[k].id = ServerAddressId(i, k)

\* C1: when run_bulk_upload finishes, success_count + partial_count +
\* failed_count is the number of records whose customer_id was null when it
\* was called.
C1_TallySumsToProcessed ==
    Finished => success_count + partial_count + failed_count = Cardinality(ToProcess0)

C1_Witness ==
    /\ pc = "done"
    /\ success_count = 1
    /\ failed_count = 1
    /\ \E i \in Idx : task[i].pc = "raised"

\* C2: a record whose customer_id is non-null when run_bulk_upload is called
\* is never changed by the run, gets no task and no request, and is not
\* tallied.
C2_SkippedRecordUntouched ==
    \A i \in Idx :
        (run >= 1 /\ users0[i].customer_id # NULL) =>
            /\ users[i] = users0[i]
            /\ task[i].pc = "none"
            /\ userCalls[i] = 0
            /\ NoAddressCall(i)
            /\ tallied[i] = NULL

C2_Witness ==
    /\ pc = "done"
    /\ \E i, j \in Idx :
        /\ users0[i].customer_id # NULL
        /\ Len(users0[i].addresses) > 0
        /\ users0[j].customer_id = NULL
        /\ tallied[j] = "partial"

\* C3 (as claimed): a record whose create-user call failed with a Transport
\* Client error ends the run with upload_status failed, customer_id null and
\* no create-address request.
C3_UserFailureMeansFailed ==
    pc = "done" =>
        \A i \in Idx :
            UserCallFailed(i) =>
                /\ users[i].upload_status = "failed"
                /\ users[i].customer_id = NULL
                /\ NoAddressCall(i)

\* C4: if the user was created and every address of the record was created,
\* upload_user leaves upload_status = success.
C4_AllCreatedMeansSuccess ==
    \A i \in Idx :
        ( /\ task[i].pc \in Settled
          /\ UserCreated(i)
          /\ \A k \in AddressIdx(i) : AddressCreated(i, k) ) =>
            /\ task[i].pc = "returned"
            /\ users[i].upload_status = "success"

C4_Witness ==
    \E i \in Idx :
        /\ task[i].pc = "returned"
        /\ UserCreated(i)
        /\ Len(users[i].addresses) = 2
        /\ \A k \in AddressIdx(i) : AddressCreated(i, k)

\* C5 (as claimed): if the user was created and at least one but not all of
\* the record's addresses succeeded, the record ends partial.
C5_SomeSucceededMeansPartial ==
    pc = "done" =>
        \A i \in Idx :
            ( /\ UserCreated(i)
              /\ \E k \in AddressIdx(i) : AddressCreated(i, k)
              /\ \E k \in AddressIdx(i) : users[i].addresses[k].upload_status # "success" ) =>
                users[i].upload_status = "partial"

\* C6 (as claimed): if the user was created, at least one address was
\* attempted and no address succeeded, the record ends failed.
C6_NoneSucceededMeansFailed ==
    pc = "done" =>
        \A i \in Idx :
            ( /\ UserCreated(i)
              /\ \E k \in AddressIdx(i) : addrCalls[i][k] >= 1
              /\ \A k \in AddressIdx(i) : users[i].addresses[k].upload_status # "success" ) =>
                users[i].upload_status = "failed"

\* C7: a record without addresses whose user was created ends success; the
\* address step reports no failure and the task returns normally.
C7_NoAddressesMeansSuccess ==
    \A i \in Idx :
        (UserCreated(i) /\ Len(users[i].addresses) = 0) =>
            /\ task[i].pc = "returned"
            /\ ~task[i].any_address_failed
            /\ users[i].upload_status = "success"

C7_Witness ==
    \E i \in Idx :
        /\ UserCreated(i)
        /\ Len(users[i].addresses) = 0
        /\ pc = "done"

\* C8 (as claimed): a second run on the list the first run left issues no
\* request and changes no status, whatever the first run's outcome.
C8_SecondRunDoesNothing ==
    run >= 2 =>
        \A i \in Idx :
            /\ userCalls[i] = 0
            /\ NoAddressCall(i)
            /\ users[i].upload_status = users0[i].upload_status
            /\ \A k \in AddressIdx(i) :
                 users[i].addresses[k].upload_status = users0[i].addresses[k].upload_status

\* C8 (amended): a second run on a list in which the first run left every
\* record with a customer_id issues no request, starts no task and changes
\* nothing.
C8_SecondRunDoesNothingWhenAllCreated ==
    (run >= 2 /\ ToProcess0 = {}) =>
        /\ pc \in {"closing_early", "returned"}
        /\ users = users0
        /\ \A i \in Idx : task[i].pc = "none" /\ userCalls[i] = 0 /\ NoAddressCall(i)

C8_Witness ==
    /\ run = 2
    /\ pc = "returned"
    /\ \E i \in Idx : users[i].customer_id = ServerCustomerId(i)
    /\ \E i \in Idx : users[i].upload_status = "partial"

\* C9: a task that ends with an exception neither makes run_bulk_upload
\* raise nor stops the other tasks: the tally starts only when all of them
\* have settled, and every task that returned is counted under its record's
\* own terminal status.
C9_FaultDoesNotAbortSiblings ==
    (\E j \in Idx : task[j].pc = "raised") =>
        /\ pc \in {"gather", "closing", "done"}
        /\ (pc \in {"closing", "done"} =>
             \A i \in Launched :
                /\ task[i].pc \in Settled
                /\ tallied[i] # NULL
                /\ (task[i].pc = "returned" =>
                     /\ users[i].upload_status \in Terminal
                     /\ tallied[i] = users[i].upload_status))

C9_Witness ==
    /\ pc = "done"
    /\ \E i, j \in Idx :
        /\ task[j].pc = "raised"
        /\ task[i].pc = "returned"
        /\ tallied[i] = "success"

\* C10 (as claimed): after the run, the record of a task that ended with an
\* exception has upload_status failed and a non-empty error_message, in the
\* list and in the file written from it.
C10_FaultedRecordMarkedFailed ==
    pc = "done" =>
        \A i \in Idx :
            task[i].pc = "raised" =>
                /\ users[i].upload_status = "failed"
                /\ users[i].error_message # NULL


\* C11: after run_bulk_upload, every record that ended failed (by its own
\* upload_status or by the status the tally counted it under) and every
\* address whose upload_status is failed carries an error_message.
C11_FailedCarriesMessage ==
    pc = "done" =>
        \A i \in Idx :
            /\ (users[i].upload_status = "failed" \/ tallied[i] = "failed")
                   => users[i].error_message # NULL
            /\ \A k \in AddressIdx(i) :
                   users[i].addresses[k].upload_status = "failed"
                       => users[i].addresses[k].error_message # NULL

\* A finished run with a failed record, and a partial record with a failed
\* address next to a created one.
C11_Witness ==
    /\ pc = "done"
    /\ \E i \in Idx : users[i].upload_status = "failed" /\ userCalls[i] = 1
    /\ \E i \in Idx : \E k \in AddressIdx(i) :
           /\ users[i].addresses[k].upload_status = "failed"
           /\ addrCalls[i][k] = 1
           /\ users[i].upload_status = "partial"

\* C12: within one run the upload_status of a record only moves forward: a
\* worker's first step sets it to processing (or, when no request can be
\* built, straight on to failed), later steps only take it from processing
\* to success, partial or failed, and once the worker has started and the
\* status is terminal no step changes it.  The same for an address: unset to
\* processing when its request is sent, processing to success or failed when
\* the request completes, and never changed after that.
C12_StatusMovesForward ==
    [][\A i \in Idx :
          /\ users'[i].upload_status # users[i].upload_status
                 => \/ /\ task[i].pc = "created"
                       /\ users'[i].upload_status \in {"processing", "failed"}
                    \/ /\ users[i].upload_status = "processing"
                       /\ users'[i].upload_status \in Terminal
          /\ (task[i].pc \notin {"none", "created"} /\ users[i].upload_status \in Terminal)
                 => users'[i].upload_status = users[i].upload_status
          /\ \A k \in AddressIdx(i) :
                users'[i].addresses[k].upload_status # users[i].addresses[k].upload_status
                    => \/ /\ users[i].addresses[k].upload_status = NULL
                          /\ users'[i].addresses[k].upload_status = "processing"
                          /\ addrCalls[i][k] = 0
                       \/ /\ users[i].addresses[k].upload_status = "processing"
                          /\ users'[i].addresses[k].upload_status \in {"success", "failed"}
      ]_vars

\* A worker has returned with its record and an attempted address in a
\* terminal status while another worker is still waiting for a response.
C12_Witness ==
    \E i, j \in Idx :
        /\ task[i].pc = "returned"
        /\ users[i].upload_status \in Terminal
        /\ \E k \in AddressIdx(i) :
               addrCalls[i][k] = 1 /\ users[i].addresses[k].upload_status \in Terminal
        /\ task[j].pc \in {"user", "address"}

\* C13: when run_bulk_upload has terminated, every worker it launched has
\* settled and its record is in a terminal status.
C13_TerminatesWithTerminalRecords ==
    pc = "done" =>
        \A i \in ToProcess0 :
            /\ task[i].pc \in Settled
            /\ users[i].upload_status \in Terminal

\* C14: once the user of a record has been created, every address of the
\* record whose id was null gets a request, however the earlier addresses
\* fared, and an address whose request failed is marked failed with an
\* error_message.
C14_AddressFailureDoesNotBlockSiblings ==
    pc = "done" =>
        \A i \in Idx :
            UserCreated(i) =>
                \A k \in AddressIdx(i) :
                    users0[i].addresses[k].id = NULL =>
                        /\ addrCalls[i][k] = 1
                        /\ \/ AddressCreated(i, k)
                           \/ /\ users[i].addresses[k].upload_status = "failed"
                              /\ users[i].addresses[k].error_message # NULL

\* A fault that is not a declared Transport Client error came out of the
\* latest create-user or create-address call of record i.
FaultInUserCall(i) == userResp[i] = Raised("RuntimeError")
FaultInAddressCall(i) == addrResp[i] = Raised("RuntimeError")

\* C15 as stated: such a fault is not absorbed inside the worker; the task
\* ends with it, gather hands it to the tally, and the record is counted and
\* marked failed.
C15_FaultReachesOrchestrator ==
    pc = "done" =>
        \A i \in Idx :
            (FaultInUserCall(i) \/ FaultInAddressCall(i)) =>
                /\ task[i].pc = "raised"
                /\ tallied[i] = "failed"
                /\ users[i].upload_status = "failed"

\* C15, amended: such a fault is absorbed by the generic handler of the step
\* it was raised in.  In the create-user call the record becomes failed with
\* an error_message, no customer_id and no address request, and the worker
\* returns.  In a create-address call that address becomes failed with an
\* error_message, the worker goes on, and the record never ends success.
C15_FaultAbsorbedByStep ==
    /\ [][\A i \in Idx :
             /\ user_response(i, "fault")
                    => /\ task'[i].pc = "returned"
                       /\ users'[i].upload_status = "failed"
                       /\ users'[i].error_message # NULL
                       /\ users'[i].customer_id = NULL
                       /\ addrCalls' = addrCalls
             /\ address_response(i, "fault")
                    => /\ task'[i].pc \in {"address", "returned"}
                       /\ task'[i].any_address_failed
                       /\ users'[i].addresses[task[i].index].upload_status = "failed"
                       /\ users'[i].addresses[task[i].index].error_message # NULL
         ]_vars
    /\ [](\A i \in Idx :
             task[i].any_address_failed => users[i].upload_status # "success")

\* A fault in the first address call was absorbed: the second address was
\* created and the record ended partial.
C15_Witness ==
    \E i \in Idx :
        /\ pc = "done"
        /\ task[i].pc = "returned"
        /\ Len(users[i].addresses) = 2
        /\ users[i].addresses[1].upload_status = "failed"
        /\ users[i].addresses[1].error_message = "Unexpected error"
        /\ AddressCreated(i, 2)
        /\ users[i].upload_status = "partial"

C17_EveryRecordOnceInOrder ==
    pc = "done" =>
        /\ writes = 1 =>
               /\ Len(saved) = Len(users0)
               /\ \A i \in Idx : saved[i].password = users0[i].password
               /\ \A i, j \in Idx : saved[i].password = saved[j].password => i = j
        /\ \A i \in Idx : i \in ToProcess0 <=> tallied[i] # NULL
        /\ success_count = Cardinality({i \in Idx : tallied[i] = "success"})
        /\ partial_count = Cardinality({i \in Idx : tallied[i] = "partial"})
        /\ failed_count = Cardinality({i \in Idx : tallied[i] = "failed"})

\* A saved list with a skipped record in front of a processed one.
C17_Witness ==
    /\ pc = "done"
    /\ writes = 1
    /\ Len(users0) = 2
    /\ users0[1].customer_id # NULL
    /\ users0[2].customer_id = NULL
    /\ saved[1] = users0[1]
    /\ saved[2].password = DocumentId(2)
    /\ tallied[2] = "success"

C19_WorkerTouchesOwnRecordOnly ==
    [][\A i \in Idx :
          /\ (\/ upload_user(i)
              \/ \E o \in HttpOutcomes : user_response(i, o)
              \/ \E o \in HttpOutcomes : address_response(i, o))
                 => \A j \in Idx \ {i} : users'[j] = users[j] /\ task'[j] = task[j]
          /\ (pc = "gather" /\ pc' = "gather" /\ users'[i] # users[i])
                 => task'[i] # task[i]
      ]_vars

\* Two workers have both written to their records and are both still
\* running.
C19_Witness ==
    \E i, j \in Idx :
        /\ i # j
        /\ task[i].pc = "address"
        /\ task[j].pc = "address"
        /\ users[i].customer_id = ServerCustomerId(i)
        /\ users[j].customer_id = ServerCustomerId(j)

\* C20: while run_bulk_upload waits in gather every to-process record has
\* its task, and no task waits for another: whatever state the other
\* workers are in, also one that never gets its response, a worker that has
\* not started can start, and a worker waiting for a response can take it,
\* whatever the response is.
C20_NoWorkerBlocksAnother ==
    \A i \in Idx :
        /\ (pc = "gather" /\ i \in ToProcess0) => task[i].pc # "none"
        /\ task[i].pc = "created" => ENABLED upload_user(i)
        /\ task[i].pc = "user" =>
               \A o \in HttpOutcomes : ENABLED user_response(i, o)
        /\ task[i].pc = "address" =>
               \A o \in HttpOutcomes : ENABLED address_response(i, o)

\* The second record's worker has returned with a terminal status while the
\* first record's worker, launched before it, still waits for its first
\* response.
C20_Witness ==
    /\ Len(users) = 2
    /\ pc = "gather"
    /\ task[1].pc = "user"
    /\ userResp[1] = NoResponse
    /\ task[2].pc = "returned"
    /\ users[2].upload_status \in Terminal
    /\ userResp[2] # NoResponse

\* C30: the cleaning loop gives the address at position 0, 1, 2 of a user's
\* list the location type 0, 1, 2 and every later address the location type
\* 2, so every location type is 0, 1 or 2.
C30_LocTypeFromPosition ==
    \A k \in DOMAIN clean_addresses :
        /\ k - 1 \in {0, 1, 2} => clean_addresses[k].loc_type = k - 1
        /\ k - 1 >= 3 => clean_addresses[k].loc_type = 2
        /\ clean_addresses[k].loc_type \in {0, 1, 2}

\* Five addresses cleaned: positions 3 and 4 both got location type 2.
C30_Witness ==
    /\ Len(clean_addresses) = 5
    /\ clean_addresses[3].loc_type = 2
    /\ clean_addresses[4].loc_type = 2
    /\ clean_addresses[5].loc_type = 2

\* The create-user call of record i returned with the expected status but
\* without a usable identifier: no body, or an identifier of zero.
UserResponseWithoutId(i) == userResp[i] \in {Returned("None"), Returned("zero_id")}

\* C21: when the create-user call returns with a success status but no valid
\* customer identifier, the worker returns with the record failed, its
\* customer_id still null, an error_message stored and no address request
\* issued, and the record stays so to the end of the run.
C21_ResponseWithoutIdMeansFailed ==
    \A i \in Idx :
        UserResponseWithoutId(i) =>
            /\ task[i].pc = "returned"
            /\ users[i].upload_status = "failed"
            /\ users[i].customer_id = NULL
            /\ users[i].error_message # NULL
            /\ NoAddressCall(i)
            /\ tallied[i] \in {NULL, "failed"}

\* A finished run in which one record got an empty body and another an
\* identifier of zero; both have addresses that were never sent.
C21_Witness ==
    /\ pc = "done"
    /\ \E i, j \in Idx :
           /\ userResp[i] = Returned("None")
           /\ userResp[j] = Returned("zero_id")
           /\ users[i].addresses # <<>>
           /\ users[j].addresses # <<>>
           /\ tallied[i] = "failed"

\* C22: in a record that is being processed, an address whose id was set
\* when the run started gets no create-address request and keeps its id,
\* upload_status and error_message.
C22_CreatedAddressSkipped ==
    \A i \in ToProcess0 :
        \A k \in AddressIdx(i) :
            users0[i].addresses[k].id # NULL =>
                /\ addrCalls[i][k] = 0
                /\ users[i].addresses[k] = users0[i].addresses[k]

\* A worker has gone through a list of a created address followed by a
\* fresh one: the fresh one was sent and created, the other left alone.
C22_Witness ==
    \E i \in ToProcess0 :
        /\ task[i].pc = "returned"
        /\ Len(users[i].addresses) = 2
        /\ users0[i].addresses[1].id = "preset"
        /\ users[i].addresses[1].id = "preset"
        /\ AddressCreated(i, 2)
        /\ users[i].upload_status = "success"

\* C23: the total the batch summary reports is the number of to-process
\* records, which is success_count + partial_count + failed_count; skipped
\* records are not in it.
C23_SummaryTotalIsProcessed ==
    pc = "done" =>
        /\ summary.total = Cardinality(ToProcess0)
        /\ summary.total = summary.success + summary.partial + summary.failed

\* C24: when save_to_json is called and its write fails (serialization
\* error, I/O error or any other exception: the call leaves the number of
\* completed writes as it was), run_bulk_upload still returns normally:
\* no record and no counter changes, and the summary is emitted with the
\* counts the tally computed before the write.
C24_SaveFailureChangesNothing ==
    [][(pc = "closing" /\ saveCalls' = saveCalls + 1 /\ writes' = writes) =>
              /\ pc' = "done"
              /\ writes' = 0
              /\ users' = users
              /\ success_count' = success_count
              /\ partial_count' = partial_count
              /\ failed_count' = failed_count
              /\ summary'.success = success_count
              /\ summary'.partial = partial_count
              /\ summary'.failed = failed_count
      ]_vars

\* A run that tallied a success and a failure has returned without a file.
C24_Witness ==
    /\ pc = "done"
    /\ saveCalls = 1
    /\ writes = 0
    /\ success_count = 1
    /\ failed_count = 1
    /\ summary.success = 1
    /\ summary.failed = 1

\* C25: in the tally a to-process record whose upload_status, as its worker
\* left it, is none of success, partial, failed is counted under failed and
\* under nothing else: success_count and partial_count count exactly the
\* records with those statuses.
C25_UnrecognisedStatusCountsFailed ==
    pc \in {"closing", "done"} =>
        /\ \A i \in ToProcess0 :
               users[i].upload_status \notin Terminal => tallied[i] = "failed"
        /\ failed_count = Cardinality({i \in Idx : tallied[i] = "failed"})
        /\ success_count =
               Cardinality({i \in ToProcess0 : users[i].upload_status = "success"})
        /\ partial_count =
               Cardinality({i \in ToProcess0 : users[i].upload_status = "partial"})

\* A record left at processing was counted as the one failure of a run
\* that also had a success.
C25_Witness ==
    /\ pc = "done"
    /\ failed_count = 1
    /\ success_count = 1
    /\ \E i \in Idx : users[i].upload_status = "processing" /\ tallied[i] = "failed"

\* C26: no step of the upload changes the number of records, the number or
\* order of a record's addresses, or an identity or payload field of a
\* record (password, email) or of an address (loc_type): only customer_id,
\* id, upload_status and error_message change.
C26_OnlyStatusIdMessageChange ==
    [][/\ Len(users') = Len(users)
       /\ \A i \in Idx :
             /\ users'[i].password = users[i].password
             /\ users'[i].email = users[i].email
             /\ Len(users'[i].addresses) = Len(users[i].addresses)
             /\ \A k \in AddressIdx(i) :
                    users'[i].addresses[k].loc_type = users[i].addresses[k].loc_type
      ]_vars

\* A finished run that created a user and its two addresses, which are
\* still the record's first and second address.
C26_Witness ==
    \E i \in Idx :
        /\ pc = "done"
        /\ users[i].password = DocumentId(i)
        /\ users[i].customer_id = ServerCustomerId(i)
        /\ Len(users[i].addresses) = 2
        /\ AddressCreated(i, 1) /\ users[i].addresses[1].loc_type = 0
        /\ AddressCreated(i, 2) /\ users[i].addresses[2].loc_type = 1

\* C27: a request whose success-status body parses as JSON but fails the
\* response model, and one whose success-status body is not JSON, both fail
\* with ApiResponseValidationError.
C27_ShapeFailuresRaiseValidationError ==
    [][\A i \in Idx : \A o \in {"bad_shape", "not_json"} :
          (user_response(i, o) => userResp'[i] = Raised("ApiResponseValidationError"))
          /\ (address_response(i, o) => addrResp'[i] = Raised("ApiResponseValidationError"))
      ]_vars

\* C28: a request whose response has a 4xx/5xx status, or a non-error status
\* other than expected_status, returns no value and fails with ApiHttpError.
C28_BadStatusRaisesHttpError ==
    [][\A i \in Idx : \A o \in {"http_error", "wrong_status"} :
          (user_response(i, o) => userResp'[i] = Raised("ApiHttpError"))
          /\ (address_response(i, o) => addrResp'[i] = Raised("ApiHttpError"))
      ]_vars

\* The batch of C29 has run: every call of A succeeded, B's user and first
\* address were created and its second address call raised the HTTP status
\* error, C's create-user call timed out.
ScenarioABC ==
    /\ pc = "done"
    /\ UserCreated(1) /\ AddressCreated(1, 1)
    /\ UserCreated(2) /\ AddressCreated(2, 1)
    /\ addrCalls[2][2] = 1 /\ addrResp[2] = _request("http_error")
    /\ userResp[3] = _request("timeout")

\* C29: after that run A is success with its address id set, B is partial
\* with one address success and one failed, C is failed and got no address
\* request, the tally is one success, one partial, one failed, and the saved
\* list holds A, B, C in that order.
C29_BatchABCOutcome ==
    ScenarioABC =>
        /\ users[1].upload_status = "success"
        /\ users[1].addresses[1].id # NULL
        /\ users[2].upload_status = "partial"
        /\ users[2].addresses[1].upload_status = "success"
        /\ users[2].addresses[2].upload_status = "failed"
        /\ users[3].upload_status = "failed"
        /\ NoAddressCall(3)
        /\ success_count = 1 /\ partial_count = 1 /\ failed_count = 1
        /\ writes = 1 =>
               /\ Len(saved) = 3
               /\ \A i \in 1..3 : saved[i].password = DocumentId(i)

\* C31: after run_bulk_upload every record whose upload_status is success
\* has no error_message.
C31_SuccessHasNoMessage ==
    pc = "done" =>
        \A i \in Idx :
            users[i].upload_status = "success" => users[i].error_message = NULL

\* C32: after run_bulk_upload the three counters are the numbers of
\* to-process records whose upload_status in the list is success, partial
\* and failed.
C32_CountersAgreeWithRecords ==
    pc = "done" =>
        /\ success_count =
               Cardinality({i \in ToProcess0 : users[i].upload_status = "success"})
        /\ partial_count =
               Cardinality({i \in ToProcess0 : users[i].upload_status = "partial"})
        /\ failed_count =
               Cardinality({i \in ToProcess0 : users[i].upload_status = "failed"})

\* C33: a record whose user was created by an earlier run and which ended
\* partial or failed gets no task in a later run: no request is issued for
\* it or for its addresses, the failed ones included, and it is not changed.
C33_CreatedButIncompleteNotReprocessed ==
    \A i \in Idx :
        (/\ users0[i].customer_id # NULL
         /\ users0[i].upload_status \in {"partial", "failed"}) =>
            /\ task[i].pc = "none"
            /\ userCalls[i] = 0
            /\ NoAddressCall(i)
            /\ users[i] = users0[i]

\* A second run has finished next to a record the first run left partial,
\* whose failed address still has no id.
C33_Witness ==
    /\ run = 2
    /\ Finished
    /\ \E i \in Idx :
           /\ users0[i].customer_id = ServerCustomerId(i)
           /\ users[i].upload_status = "partial"
           /\ \E k \in AddressIdx(i) :
                  /\ users[i].addresses[k].id = NULL
                  /\ users[i].addresses[k].upload_status = "failed"

\* C34: within one run at most one create-user request is issued per record
\* and at most one create-address request per address, whatever the
\* requests come back with and however the workers interleave.
C34_AtMostOneCallPerEntity ==
    \A i \in Idx :
        /\ userCalls[i] <= 1
        /\ \A k \in AddressIdx(i) : addrCalls[i][k] <= 1

\* A finished run in which a create-user request failed and, in another
\* record, a create-address request failed next to one that succeeded: each
\* was sent once.
C34_Witness ==
    /\ pc = "done"
    /\ \E i, j \in Idx :
           /\ userCalls[i] = 1
           /\ userResp[i].exc # NULL
           /\ \E k, m \in AddressIdx(j) :
                  /\ addrCalls[j][k] = 1
                  /\ users[j].addresses[k].upload_status = "failed"
                  /\ AddressCreated(j, m)

\* C35: a call of run_bulk_upload that finds no record to process (all
\* have a customer_id, or the list is empty) returns after its warning: it
\* creates no task, issues no request, changes no record, does not call
\* save_to_json and emits no summary.
C35_NothingToUploadDoesNothing ==
    (pc # "idle" /\ ToProcess0 = {}) =>
        /\ pc \in {"closing_early", "returned"}
        /\ \A i \in Idx : task[i].pc = "none" /\ userCalls[i] = 0 /\ NoAddressCall(i)
        /\ users = users0
        /\ saveCalls = 0
        /\ writes = 0
        /\ summary = NULL

\* A first call on a list of two records that both have a customer_id has
\* returned.
C35_Witness ==
    /\ run = 1
    /\ pc = "returned"
    /\ Len(users) = 2
    /\ \A i \in Idx : users[i].customer_id # NULL
    /\ saveCalls = 0

\* C36: a record's customer_id changes only once in a run, from null to the
\* identifier its own create-user call returned, in the step that takes
\* that response, and never after; at every point a record whose status is
\* success or partial has a customer_id, and a record whose worker returned
\* without a valid create-user response has none.
C36_CustomerIdAssignedOnce ==
    /\ [][\A i \in Idx :
             users'[i].customer_id # users[i].customer_id =>
                 /\ users[i].customer_id = NULL
                 /\ task[i].pc = "user"
                 /\ userResp'[i] = Returned("valid")
                 /\ users'[i].customer_id = ServerCustomerId(i)
         ]_vars
    /\ [](\A i \in Idx :
             /\ users[i].upload_status \in {"success", "partial"}
                    => users[i].customer_id # NULL
             /\ (task[i].pc = "returned" /\ userResp[i] # Returned("valid"))
                    => users[i].customer_id = NULL /\ users[i].upload_status = "failed")

\* Both records of a finished run have their own identifiers although all
\* addresses of one of them failed.
C36_Witness ==
    /\ pc = "done"
    /\ Len(users) = 2
    /\ users[1].customer_id = ServerCustomerId(1)
    /\ users[2].customer_id = ServerCustomerId(2)
    /\ \E i \in Idx : users[i].upload_status = "failed" /\ users[i].addresses # <<>>

\* C37: every create-address request of a record is issued after the
\* record's create-user call returned a valid response, and carries the
\* customer identifier that call returned: never null, never the identifier
\* of another record.  An address that got no request carries nothing.
C37_AddressRequestCarriesOwnCustomerId ==
    \A i \in Idx : \A k \in AddressIdx(i) :
        IF addrCalls[i][k] >= 1
        THEN /\ UserCreated(i)
             /\ userCalls[i] = 1
             /\ addrPayload[i][k] = ServerCustomerId(i)
             /\ addrPayload[i][k] # NULL
             /\ \A j \in Idx \ {i} : addrPayload[i][k] # ServerCustomerId(j)
        ELSE addrPayload[i][k] = NULL

\* Both records were created in the same run and each has had an address
\* request sent, the two workers being interleaved.
C37_Witness ==
    /\ Cardinality(Idx) = 2
    /\ \A i \in Idx :
           /\ UserCreated(i)
           /\ AddressIdx(i) # {}
           /\ \E k \in AddressIdx(i) : addrCalls[i][k] = 1
    /\ \E i \in Idx : task[i].pc = "address"

\* C38: for an address that got a request in this run, upload_status is
\* success exactly when its id is the identifier its create-address call
\* returned; if upload_status is failed the id is still null; and once the
\* record's worker has returned normally the address is not at processing.
C38_AddressStatusMatchesId ==
    \A i \in Idx : \A k \in AddressIdx(i) :
        addrCalls[i][k] >= 1 =>
            /\ users[i].addresses[k].upload_status = "success"
                   <=> users[i].addresses[k].id = ServerAddressId(i, k)
            /\ users[i].addresses[k].upload_status = "failed"
                   => users[i].addresses[k].id = NULL
            /\ task[i].pc = "returned"
                   => users[i].addresses[k].upload_status \in {"success", "failed"}

\* A worker has returned from a record whose first address failed, its id
\* still unset, and whose second address was created.
C38_Witness ==
    \E i \in Idx :
        /\ task[i].pc = "returned"
        /\ Len(users[i].addresses) = 2
        /\ addrCalls[i][1] = 1
        /\ users[i].addresses[1].upload_status = "failed"
        /\ users[i].addresses[1].id = NULL
        /\ addrResp[i] = Returned("valid")
        /\ users[i].addresses[2].id = ServerAddressId(i, 2)

\* The worker of record i run alone, from position k of its address loop to
\* its end, with the outcomes fixed for its requests: the record as the
\* worker leaves it and the exception that ended the worker, if any.
RECURSIVE AddressesAlone(_, _, _, _)
AddressesAlone(u, i, k, any_failed) ==
    LET q == Proceed(u, k, any_failed)
        n == q.sent
        p == _post_addresses(q.user.addresses[n], i, n, outcome.addr[<<i, n>>])
        v == [q.user EXCEPT !.addresses[n] = p.address]
    IN  IF n = 0 THEN [user |-> q.user, result |-> NULL]
        ELSE IF p.exc # NULL THEN [user |-> v, result |-> p.exc]
        ELSE AddressesAlone(v, i, n + 1, any_failed \/ p.failed)

\* The same from the start of upload_user.
WorkerAlone(i) ==
    LET u == users0[i]
        p == _post_user([u EXCEPT !.upload_status = "processing"], i, outcome.user[i])
    IN  IF u.email = NULL
        THEN [user |-> [u EXCEPT !.upload_status = "failed",
                                 !.error_message = "Unexpected user creation error"],
              result |-> NULL]
        ELSE IF p.exc # NULL THEN [user |-> p.user, result |-> p.exc]
        ELSE IF p.ret = NULL
        THEN [user |-> [p.user EXCEPT !.upload_status = "failed"], result |-> NULL]
        ELSE AddressesAlone([p.user EXCEPT !.customer_id = p.ret], i, 1, FALSE)

\* What the input list and the fixed outcomes determine: each record after
\* the tally, and the status it is counted under.
ExpectedUser(i) ==
    IF i \in ToProcess0
    THEN TallyUser(WorkerAlone(i).user, [NoTask EXCEPT !.result = WorkerAlone(i).result])
    ELSE users0[i]

ExpectedStatus(i) ==
    TallyStatus(WorkerAlone(i).user, [NoTask EXCEPT !.result = WorkerAlone(i).result])

ExpectedCount(s) == Cardinality({i \in ToProcess0 : ExpectedStatus(i) = s})

\* C39: with the input list and the outcome of every request fixed, every
\* order in which the workers' responses arrive ends in the same list (the
\* status, identifier and error message of every record and address) and
\* the same success, partial and failed counts: those of the workers run
\* one after another, each alone.
C39_ResultIndependentOfScheduling ==
    pc = "done" =>
        /\ users = [i \in Idx |-> ExpectedUser(i)]
        /\ success_count = ExpectedCount("success")
        /\ partial_count = ExpectedCount("partial")
        /\ failed_count = ExpectedCount("failed")

\* A run over two records has finished in which every address of both got
\* a request, the first record lost its first address and was counted
\* partial, and the second was counted success.
C39_Witness ==
    /\ pc = "done"
    /\ Cardinality(Idx) = 2
    /\ ToProcess0 = Idx
    /\ \A i \in Idx : Len(users[i].addresses) = 2 /\ addrCalls[i][2] = 1
    /\ users[1].addresses[1].upload_status = "failed"
    /\ tallied[1] = "partial"
    /\ tallied[2] = "success"
====
